---- MODULE Spec2Model ----
(***************************************************************************)
(* A model of the rust-cratedb driver: the SQL protocol (sql.rs), the row  *)
(* set (rowiterator.rs, row.rs), the blob store (blob.rs), the endpoint    *)
(* selector (dbcluster.rs) and the HTTP backend's status mapping           *)
(* (backend.rs).                                                           *)
(*                                                                         *)
(* Text (a Rust String) is a sequence of lexemes [k, v]:                   *)
(*   k = "p"  punctuation  { } [ ] : ,                                     *)
(*   k = "s"  a quoted JSON string literal with content v                  *)
(*   k = "i"  an integer literal,  k = "f" a float literal (n in 1/1000)   *)
(*   k = "w"  a bare word (true, false, null, or any other text)           *)
(* A JSON value (serde_json::Value) is a record tagged by t, one of        *)
(*   "null", "bool", "int", "float", "str", "arr", "obj",                  *)
(* with its content in a field named after the type (b, n, s, a, o).       *)
(***************************************************************************)
EXTENDS Integers, Sequences, FiniteSets, TLC

\* ------------------------------------------------------------ bounds
MaxRows == 2
MaxResults == 2
MaxNodes == 2
MaxWidth == 2
MaxCallers == 2

\* ------------------------------------------------------------ text
P(c) == [k |-> "p", v |-> c]
S(c) == [k |-> "s", v |-> c]
I(n) == [k |-> "i", n |-> n]
F(n) == [k |-> "f", n |-> n]
W(c) == [k |-> "w", v |-> c]

\* A string literal of the source, as text.
Str(c) == <<W(c)>>

\* ------------------------------------------------------------ JSON values
JNull == [t |-> "null"]
JBool(b) == [t |-> "bool", b |-> b]
JInt(n) == [t |-> "int", n |-> n]
JFloat(n) == [t |-> "float", n |-> n]
JStr(c) == [t |-> "str", s |-> c]
JArr(q) == [t |-> "arr", a |-> q]
JObj(f) == [t |-> "obj", o |-> f]

\* Option::None (also the result of a failed conversion).
None == [t |-> "None"]
IsSome(x) == x.t # "None"

\* serde_json's Map is ordered by key: the keys the model uses, in order.
KeyOrder == <<"a", "args", "b", "bulk_args", "code", "cols", "duration", "error",
              "message", "results", "rowcount", "rows", "stmt">>

SortedKeys(f) == SelectSeq(KeyOrder, LAMBDA key : key \in DOMAIN f)

\* ------------------------------------------------------------ serde_json::from_str
ParseFail == [ok |-> FALSE, val |-> JNull, rest |-> 0]
ParseOk(val, rest) == [ok |-> TRUE, val |-> val, rest |-> rest]

IsP(s, i, c) == i <= Len(s) /\ s[i].k = "p" /\ s[i].v = c

RECURSIVE ParseValue(_, _), ParseMembers(_, _, _), ParseElements(_, _, _)

\* One JSON value starting at lexeme i of s.
ParseValue(s, i) ==
  IF i > Len(s) THEN ParseFail
  ELSE CASE s[i].k = "s" -> ParseOk(JStr(s[i].v), i + 1)
         [] s[i].k = "i" -> ParseOk(JInt(s[i].n), i + 1)
         [] s[i].k = "f" -> ParseOk(JFloat(s[i].n), i + 1)
         [] s[i].k = "w" ->
              CASE s[i].v = "true" -> ParseOk(JBool(TRUE), i + 1)
                [] s[i].v = "false" -> ParseOk(JBool(FALSE), i + 1)
                [] s[i].v = "null" -> ParseOk(JNull, i + 1)
                [] OTHER -> ParseFail
         [] s[i].k = "p" ->
              CASE s[i].v = "{" ->
                     IF IsP(s, i + 1, "}") THEN ParseOk(JObj(<<>>), i + 2)
                     ELSE ParseMembers(s, i + 1, <<>>)
                [] s[i].v = "[" ->
                     IF IsP(s, i + 1, "]") THEN ParseOk(JArr(<<>>), i + 2)
                     ELSE ParseElements(s, i + 1, <<>>)
                [] OTHER -> ParseFail

\* "key" : value , ... }   (a repeated key keeps its last value)
ParseMembers(s, i, acc) ==
  IF ~(i <= Len(s) /\ s[i].k = "s" /\ IsP(s, i + 1, ":")) THEN ParseFail
  ELSE LET r == ParseValue(s, i + 2)
       IN IF ~r.ok THEN ParseFail
          ELSE LET acc2 == (s[i].v :> r.val) @@ acc
               IN CASE IsP(s, r.rest, ",") -> ParseMembers(s, r.rest + 1, acc2)
                    [] IsP(s, r.rest, "}") -> ParseOk(JObj(acc2), r.rest + 1)
                    [] OTHER -> ParseFail

\* value , ... ]
ParseElements(s, i, acc) ==
  LET r == ParseValue(s, i)
  IN IF ~r.ok THEN ParseFail
     ELSE LET acc2 == Append(acc, r.val)
          IN CASE IsP(s, r.rest, ",") -> ParseElements(s, r.rest + 1, acc2)
               [] IsP(s, r.rest, "]") -> ParseOk(JArr(acc2), r.rest + 1)
               [] OTHER -> ParseFail

\* serde_json::from_str: the whole text must be one value; None stands for Err.
from_str(s) ==
  LET r == ParseValue(s, 1)
  IN IF r.ok /\ r.rest = Len(s) + 1 THEN r.val ELSE None

\* ------------------------------------------------------------ Value::to_string
RECURSIVE to_string(_), MembersText(_, _), ElementsText(_)

MembersText(f, keys) ==
  IF keys = <<>> THEN <<>>
  ELSE <<S(Head(keys)), P(":")>> \o to_string(f[Head(keys)])
       \o (IF Len(keys) > 1 THEN <<P(",")>> ELSE <<>>)
       \o MembersText(f, Tail(keys))

ElementsText(q) ==
  IF q = <<>> THEN <<>>
  ELSE to_string(Head(q))
       \o (IF Len(q) > 1 THEN <<P(",")>> ELSE <<>>)
       \o ElementsText(Tail(q))

to_string(val) ==
  CASE val.t = "null" -> <<W("null")>>
    [] val.t = "bool" -> <<W(IF val.b THEN "true" ELSE "false")>>
    [] val.t = "int" -> <<I(val.n)>>
    [] val.t = "float" -> <<F(val.n)>>
    [] val.t = "str" -> <<S(val.s)>>
    [] val.t = "arr" -> <<P("[")>> \o ElementsText(val.a) \o <<P("]")>>
    [] val.t = "obj" -> <<P("{")>> \o MembersText(val.o, SortedKeys(val.o)) \o <<P("}")>>

\* ------------------------------------------------------------ Value accessors
\* Value::pointer for a path of member names (none of them an array index).
RECURSIVE pointer(_, _)
pointer(val, path) ==
  IF path = <<>> THEN val
  ELSE IF val.t = "obj" /\ Head(path) \in DOMAIN val.o
       THEN pointer(val.o[Head(path)], Tail(path))
       ELSE None

as_str(val) == IF val.t = "str" THEN val ELSE None
as_array(val) == IF val.t = "arr" THEN val ELSE None
as_i64(val) == IF val.t = "int" THEN val ELSE None
\* An integer converts to the float of the same value; floats are in 1/1000.
as_f64(val) ==
  CASE val.t = "float" -> val
    [] val.t = "int" -> JFloat(val.n * 1000)
    [] OTHER -> None

\* ------------------------------------------------------------ error.rs
\* format!("Error [Code {}]: {}", c, m)
Description(m, c) == Str("Error [Code ") \o Str(c) \o Str("]: ") \o m

\* CrateDBError::new(message, code): message is text, code a string.
CrateDBError(m, c) == [message |-> m, code |-> c, description |-> Description(m, c)]

\* BackendError::new(error) and the from_* constructors: a description, as text.
BackendError(d) == [description |-> d]
from_transport == BackendError(Str("Error on Transport: ") \o Str("Io"))
from_io == BackendError(Str("Error on I/O: ") \o Str("BrokenPipe"))

\* ------------------------------------------------------------ results
Ok(val) == [kind |-> "Ok", val |-> val]
Err(e) == [kind |-> "Err", err |-> e]
\* An unwrap() of None or of Err, or an index out of range: the thread panics.
Panic == [kind |-> "panic"]
NoResult == [kind |-> "none"]

\* What an accessor of a row returned: Some(value) or None.
Opt(val) == [kind |-> "Opt", val |-> val]

\* Option<String>
Some(text) == [some |-> TRUE, text |-> text]
NoText == [some |-> FALSE]

\* ------------------------------------------------------------ dbcluster.rs
\* A hyper Url: scheme, host (with port) and the path's segments, each a text.
Url(scheme, host, path) == [scheme |-> scheme, host |-> host, path |-> path]

RECURSIVE PathText(_)
PathText(path) ==
  IF path = <<>> THEN <<>> ELSE Str("/") \o Head(path) \o PathText(Tail(path))

\* Url::as_str
url_as_str(u) == Str(u.scheme) \o Str("://") \o Str(u.host) \o PathText(u.path)

\* get_endpoint with the suffix of the SQL endpoint for both endpoint types.
EndpointSuffix_sql_for_all(endpoint_type) == "_sql"

EndpointSuffix(endpoint_type) ==
  CASE endpoint_type = "SQL" -> "_sql"
    [] endpoint_type = "Blob" -> "_blobs"

\* The indices random::<usize>() % self.nodes.len() can give (0-based).
NodeChoices(ns) == 0 .. (Len(ns) - 1)

\* Loadbalancing::get_endpoint, for the node index the random source gave.
get_endpoint(ns, node, endpoint_type) ==
  IF ns # <<>>
  THEN Some(url_as_str(ns[node + 1]) \o Str(EndpointSuffix(endpoint_type)))
  ELSE NoText

\* ------------------------------------------------------------ sql.rs
\* serde_json::to_value(params): None when the parameter's Serialize fails.
to_value(p) == IF p.t = "Unserializable" THEN None ELSE p

\* The request with the parameters of a bulk query under "args".
json_query_bulk_as_args(sql, bulk, params) ==
  IF IsSome(params)
  THEN IF ~IsSome(to_value(params)) THEN NoText
       ELSE Some(to_string(JObj(("stmt" :> JStr(sql)) @@ ("args" :> to_value(params)))))
  ELSE IF bulk THEN NoText ELSE Some(to_string(JObj("stmt" :> JStr(sql))))

\* The JSON text Executor::execute builds (json!(...).to_string()); params is
\* None for Option::None. NoText as a result: an unwrap() panicked.
json_query(sql, bulk, params) ==
  IF bulk
  THEN IF ~IsSome(params) \/ ~IsSome(to_value(params)) THEN NoText
       ELSE Some(to_string(JObj(("stmt" :> JStr(sql)) @@ ("bulk_args" :> to_value(params)))))
  ELSE IF IsSome(params)
       THEN IF ~IsSome(to_value(params)) THEN NoText
            ELSE Some(to_string(JObj(("stmt" :> JStr(sql)) @@ ("args" :> to_value(params)))))
       ELSE Some(to_string(JObj("stmt" :> JStr(sql))))

\* The text Executor::execute returns for the backend's answer: the body, or
\* the error's description.
execute_text(answer) ==
  IF answer.kind = "Ok" THEN answer.val ELSE answer.err.description

\* extract_error
extract_error(data) ==
  LET m == pointer(data, <<"error", "message">>)
      c == pointer(data, <<"error", "code">>)
  IN IF ~IsSome(m) \/ ~IsSome(as_str(m)) \/ ~IsSome(c) \/ ~IsSome(as_i64(c))
     THEN Panic
     ELSE Err(CrateDBError(Str(as_str(m).s), ToString(as_i64(c).n)))

\* The error without the body in its message.
InvalidJson_without_body(body) ==
  Err(CrateDBError(Str("Invalid JSON was returned") \o Str(": "), "500"))

\* The error for a text that is not JSON.
InvalidJson(body) ==
  Err(CrateDBError(Str("Invalid JSON was returned") \o Str(": ") \o body, "500"))

\* The column index with the first of the positions that hold a name.
ColumnIndex_first_position(cols_raw) ==
  LET names == {cols_raw[i].s : i \in {j \in DOMAIN cols_raw : cols_raw[j].t = "str"}}
  IN [name \in names |->
        CHOOSE i \in 0 .. (Len(cols_raw) - 1) :
          /\ cols_raw[i + 1] = JStr(name)
          /\ \A j \in 0 .. (i - 1) : cols_raw[j + 1] # JStr(name)]

\* The column index: every name of cols that is a string, mapped to its
\* 0-based position (a repeated name keeps its last position).
ColumnIndex(cols_raw) ==
  LET names == {cols_raw[i].s : i \in {j \in DOMAIN cols_raw : cols_raw[j].t = "str"}}
  IN [name \in names |->
        CHOOSE i \in 0 .. (Len(cols_raw) - 1) :
          /\ cols_raw[i + 1] = JStr(name)
          /\ \A j \in (i + 1) .. (Len(cols_raw) - 1) : cols_raw[j + 1] # JStr(name)]

\* A row set that loses its first row.
RowIterator_skips_first(rs, header) ==
  [rows |-> IF rs = <<>> THEN rs ELSE Tail(rs), header |-> header]

\* RowIterator::new(rows, header)
RowIterator(rs, header) == [rows |-> rs, header |-> header]

\* RowIterator::len
len(it) == Len(it.rows)

\* QueryRunner::query, from the text execute returned.
query_decode(body) ==
  LET data == from_str(body)
  IN IF ~IsSome(data) THEN InvalidJson(body)
     ELSE LET cols_raw == pointer(data, <<"cols">>)
              rs == pointer(data, <<"rows">>)
              duration == pointer(data, <<"duration">>)
          IN IF ~IsSome(cols_raw) THEN extract_error(data)
             ELSE IF \/ ~IsSome(rs) \/ ~IsSome(as_array(rs))
                     \/ ~IsSome(as_array(cols_raw))
                     \/ ~IsSome(duration) \/ ~IsSome(as_f64(duration))
                  THEN Panic
                  ELSE Ok([duration |-> as_f64(duration).n,
                           rows |-> RowIterator(rs.a, ColumnIndex(cols_raw.a))])

\* The rowcounts taken in the reverse of the array's order.
rowcounts_reversed(bulk_results) ==
  [i \in DOMAIN bulk_results |->
     pointer(bulk_results[Len(bulk_results) + 1 - i], <<"rowcount">>).n]

\* The map over /results that collects each rowcount.
rowcounts(bulk_results) ==
  [i \in DOMAIN bulk_results |-> pointer(bulk_results[i], <<"rowcount">>).n]

\* QueryRunner::bulk_query, from the text execute returned.
bulk_query_decode(body) ==
  LET data == from_str(body)
  IN IF ~IsSome(data) THEN InvalidJson(body)
     ELSE LET bulk_results == pointer(data, <<"results">>)
              duration == pointer(data, <<"duration">>)
          IN IF ~IsSome(pointer(data, <<"cols">>)) THEN extract_error(data)
             ELSE IF \/ ~IsSome(bulk_results) \/ ~IsSome(as_array(bulk_results))
                     \/ \E i \in DOMAIN bulk_results.a :
                          LET rc == pointer(bulk_results.a[i], <<"rowcount">>)
                          IN ~IsSome(rc) \/ ~IsSome(as_i64(rc))
                     \/ ~IsSome(duration) \/ ~IsSome(as_f64(duration))
                  THEN Panic
                  ELSE Ok([duration |-> as_f64(duration).n,
                           rowcounts |-> rowcounts(bulk_results.a)])

\* ------------------------------------------------------------ rowiterator.rs, row.rs
\* Row::new(wrapped, headers)
Row(wrapped, headers) == [wrapped |-> wrapped, columns |-> headers]

\* The closure RowIterator::new maps over the rows: not ok when unwrap() panics.
MakeRow(r, headers) ==
  IF IsSome(as_array(r)) THEN [ok |-> TRUE, row |-> Row(as_array(r).a, headers)]
  ELSE [ok |-> FALSE]

\* Value::as_bool and Value::as_u64
as_bool(val) == IF val.t = "bool" THEN val ELSE None
as_u64(val) == IF val.t = "int" /\ val.n >= 0 THEN val ELSE None

\* serde_json::from_value::<T>(e) succeeds: e decodes as the type T.
RECURSIVE Decodes(_, _)
Decodes(e, T) ==
  CASE T = "Value" -> TRUE
    [] T = "i64" -> e.t = "int"
    [] T = "u64" -> e.t = "int" /\ e.n >= 0
    [] T = "f64" -> e.t \in {"int", "float"}
    [] T = "bool" -> e.t = "bool"
    [] T = "String" -> e.t = "str"
    [] T = "Vec<i64>" -> e.t = "arr" /\ \A i \in DOMAIN e.a : Decodes(e.a[i], "i64")

\* The accessors of a row: which one, and for as_array the element type T.
Accessors ==
  {[fn |-> f, T |-> "Value"] : f \in {"as_string", "as_i64", "as_u64", "as_f64", "as_bool"}}
  \cup {[fn |-> "as_array", T |-> T] : T \in {"Value", "i64", "String"}}

\* impl ByIndex for Row: self.wrapped.get(idx).unwrap() panics past the row's
\* end; as_array unwraps the decoding of every element.
ByIndex(row, acc, idx) ==
  IF idx >= Len(row.wrapped) THEN Panic
  ELSE LET val == row.wrapped[idx + 1]
       IN CASE acc.fn = "as_string" -> Opt(as_str(val))
            [] acc.fn = "as_i64" -> Opt(as_i64(val))
            [] acc.fn = "as_u64" -> Opt(as_u64(val))
            [] acc.fn = "as_f64" -> Opt(as_f64(val))
            [] acc.fn = "as_bool" -> Opt(as_bool(val))
            [] acc.fn = "as_array" ->
                 IF ~IsSome(as_array(val)) THEN Opt(None)
                 ELSE IF \A i \in DOMAIN val.a : Decodes(val.a[i], acc.T)
                      THEN Opt(val)
                      ELSE Panic

\* The accessors by name reading the row's first position.
ByColumnName_first_position(row, acc, col) ==
  IF col \in DOMAIN row.columns THEN ByIndex(row, acc, 0)
  ELSE Opt(None)

\* impl ByColumnName for Row
ByColumnName(row, acc, col) ==
  IF col \in DOMAIN row.columns THEN ByIndex(row, acc, row.columns[col])
  ELSE Opt(None)

\* ------------------------------------------------------------ common.rs
\* The digest ring computes over the bytes fed to it, abstracted to a
\* deterministic function from byte strings to DigestLen bytes.
DigestLen == 20

RECURSIVE ByteSum(_, _)
ByteSum(data, i) ==
  IF data = <<>> THEN 0 ELSE (i * Head(data)) + ByteSum(Tail(data), i + 1)

sha1(data) == [i \in 1 .. DigestLen |-> (ByteSum(data, i) + (7 * Len(data)) + i) % 256]

HexDigits == <<"0", "1", "2", "3", "4", "5", "6", "7",
               "8", "9", "a", "b", "c", "d", "e", "f">>

\* to_hex_string: two lowercase hex digits per byte.
RECURSIVE to_hex_string(_)
to_hex_string(bytes) ==
  IF bytes = <<>> THEN <<>>
  ELSE <<W(HexDigits[(Head(bytes) \div 16) + 1]), W(HexDigits[(Head(bytes) % 16) + 1])>>
       \o to_hex_string(Tail(bytes))

\* A Read + Seek source: its bytes, the read position, whether read() fails
\* and whether seek() fails.
Stream(data, pos, readFails, seekFails) ==
  [data |-> data, pos |-> pos, readFails |-> readFails, seekFails |-> seekFails]

Remaining(st) == SubSeq(st.data, st.pos + 1, Len(st.data))

\* The position of a stream that was read until read() returned 0.
AtEnd(st) == IF st.pos > Len(st.data) THEN st.pos ELSE Len(st.data)

\* The digest pass without the seek to the start.
sha1_digest_without_rewind(st) ==
  IF st.readFails THEN [ok |-> FALSE, stream |-> st]
  ELSE [ok |-> TRUE, sha1 |-> sha1(Remaining(st)),
        stream |-> [st EXCEPT !.pos = AtEnd(st)]]

\* The digest pass going on after a failed read.
sha1_digest_read_error_ignored(st) ==
  [ok |-> TRUE, sha1 |-> sha1(Remaining(st)),
   stream |-> [st EXCEPT !.pos = IF st.seekFails THEN AtEnd(st) ELSE 0]]

\* sha1_digest: reads from the current position to the end, then seeks to
\* the start (the seek's result is dropped).
sha1_digest(st) ==
  IF st.readFails THEN [ok |-> FALSE, stream |-> st]
  ELSE [ok |-> TRUE, sha1 |-> sha1(Remaining(st)),
        stream |-> [st EXCEPT !.pos = IF st.seekFails THEN AtEnd(st) ELSE 0]]

\* ------------------------------------------------------------ backend.rs
\* The mapping with 404 classified as NotFound.
parse_status_404_not_found(code) ==
  CASE code \in {200, 201, 202} -> "Ok"
    [] code = 404 -> "NotFound"
    [] code \in {401, 403, 405} -> "NotAuthorized"
    [] code = 408 -> "Timeout"
    [] OTHER -> "Error"

\* The mapping with every success code classified as Ok.
parse_status_any_2xx(code) ==
  CASE code \in 200 .. 299 -> "Ok"
    [] code \in {401, 403, 405} -> "NotAuthorized"
    [] code = 408 -> "Timeout"
    [] OTHER -> "Error"

\* parse_status, on the numeric HTTP status code.
parse_status(code) ==
  CASE code \in {200, 201, 202} -> "Ok"
    [] code \in {400, 500} -> "Error"
    [] code \in {401, 403, 405} -> "NotAuthorized"
    [] code = 408 -> "Timeout"
    [] OTHER -> "Error"

BackendResult == {"NotFound", "NotAuthorized", "Timeout", "Error", "Ok"}

\* Url::parse on the text of a URL.
RECURSIVE Segments(_, _)
Segments(s, cur) ==
  IF s = <<>> THEN <<cur>>
  ELSE IF Head(s) = W("/") THEN <<cur>> \o Segments(Tail(s), <<>>)
       ELSE Segments(Tail(s), Append(cur, Head(s)))

Url_parse(text) ==
  IF Len(text) < 3 \/ text[2] # W("://") THEN [ok |-> FALSE]
  ELSE LET rest == SubSeq(text, 4, Len(text))
       IN IF rest = <<>> THEN [ok |-> TRUE, url |-> Url(text[1].v, text[3].v, << <<>> >>)]
          ELSE IF Head(rest) # W("/") THEN [ok |-> FALSE]
               ELSE [ok |-> TRUE,
                     url |-> Url(text[1].v, text[3].v, Segments(Tail(rest), <<>>))]

\* PathBuf::push: an absolute component replaces the path, a relative one is
\* added after a separator (none is added after a trailing one).
PathPush(path, comp) ==
  IF comp # <<>> /\ Head(comp) = W("/") THEN Segments(Tail(comp), <<>>)
  ELSE IF path[Len(path)] = <<>> THEN [path EXCEPT ![Len(path)] = comp]
       ELSE Append(path, comp)

\* Into<UrlType> for String
into_UrlType(scheme) == IF scheme = "https" THEN "Encryped" ELSE "Plaintext"

\* HTTPClientFactory::client: the connector of the Client it builds.
client(use_proxy, u) ==
  IF use_proxy THEN "with_http_proxy"
  ELSE CASE u = "Encryped" -> "HttpConnector"
         [] u = "Plaintext" -> "HttpsConnector"

\* make_blob_url
make_blob_url(to, bucket, digest) ==
  IF ~to.some THEN [ok |-> FALSE, err |-> BackendError(Str("No URL specified"))]
  ELSE LET u == Url_parse(to.text)
       IN IF ~u.ok THEN [ok |-> FALSE, err |-> BackendError(Str("Invalid URL"))]
          ELSE [ok |-> TRUE,
                url |-> [u.url EXCEPT
                           !.path = PathPush(PathPush(u.url.path, bucket),
                                             to_hex_string(digest))]]

\* ------------------------------------------------------------ dbcluster.rs, constructors
CrateDBConfigurationError ==
  [description |-> Str("Please provide URLs to connect to")]

\* A DBCluster value.
DBCluster(ns, be) == [nodes |-> ns, backend |-> be]

\* DBCluster::new
new(ns) ==
  IF Len(ns) < 1 THEN Err(CrateDBConfigurationError) ELSE Ok(DBCluster(ns, "http"))

\* DBCluster::with_proxy: the HTTP backend, its clients going through the proxy.
with_proxy(ns, host, port) ==
  IF Len(ns) < 1 THEN Err(CrateDBConfigurationError) ELSE Ok(DBCluster(ns, "http"))

\* DBCluster::with_custom_backend
with_custom_backend(ns, be) == DBCluster(ns, be)

\* str::split(','): the parts between the commas, one more than there are commas.
RECURSIVE Split(_, _)
Split(text, cur) ==
  IF text = <<>> THEN <<cur>>
  ELSE IF Head(text) = W(",") THEN <<cur>> \o Split(Tail(text), <<>>)
       ELSE Split(Tail(text), Append(cur, Head(text)))

\* DBCluster::from_string: every part is parsed and unwrapped.
from_string(node_str) ==
  LET parts == Split(node_str, <<>>)
  IN IF \E i \in DOMAIN parts : ~Url_parse(parts[i]).ok THEN Panic
     ELSE LET ns == [i \in DOMAIN parts |-> Url_parse(parts[i]).url]
          IN IF Len(ns) < 1 THEN Err(CrateDBConfigurationError)
             ELSE Ok(with_custom_backend(ns, "http"))

\* ------------------------------------------------------------ blob.rs
BlobRef(digest, table) == [sha1 |-> digest, table |-> table]
Action(e) == [variant |-> "Action", err |-> e]
Transport(e) == [variant |-> "Transport", err |-> e]

\* The match with the BlobRef of a successful upload naming no table.
put_status_without_table(status, table, digest) ==
  CASE status = "Ok" -> Ok(BlobRef(digest, <<>>))
    [] status = "NotFound" ->
         Err(Action(CrateDBError(Str("Could not upload BLOB. Not found."), "404")))
    [] status = "NotAuthorized" ->
         Err(Action(CrateDBError(Str("Could not upload BLOB: Not authorized."), "403")))
    [] status = "Timeout" ->
         Err(Action(CrateDBError(Str("Could not upload BLOB. Timed out."), "408")))
    [] status = "Error" ->
         Err(Action(CrateDBError(Str("Could not upload BLOB. Server error."), "500")))

\* The match on the upload's status in BlobContainer::put.
put_status(status, table, digest) ==
  CASE status = "Ok" -> Ok(BlobRef(digest, table))
    [] status = "NotFound" ->
         Err(Action(CrateDBError(Str("Could not upload BLOB. Not found."), "404")))
    [] status = "NotAuthorized" ->
         Err(Action(CrateDBError(Str("Could not upload BLOB: Not authorized."), "403")))
    [] status = "Timeout" ->
         Err(Action(CrateDBError(Str("Could not upload BLOB. Timed out."), "408")))
    [] status = "Error" ->
         Err(Action(CrateDBError(Str("Could not upload BLOB. Server error."), "500")))

\* The match with a missing blob counted as deleted.
delete_status_missing_is_ok(status) ==
  CASE status \in {"Ok", "NotFound"} -> Ok(<<>>)
    [] status = "NotAuthorized" ->
         Err(Action(CrateDBError(Str("Could not delete BLOB: Not authorized."), "403")))
    [] status = "Timeout" ->
         Err(Action(CrateDBError(Str("Could not delete BLOB. Timed out."), "408")))
    [] status = "Error" ->
         Err(Action(CrateDBError(Str("Could not delete BLOB. Server error."), "500")))

\* The match on the status in BlobContainer::delete.
delete_status(status) ==
  CASE status = "Ok" -> Ok(<<>>)
    [] status = "NotFound" ->
         Err(Action(CrateDBError(Str("Could not delete BLOB. Not found."), "404")))
    [] status = "NotAuthorized" ->
         Err(Action(CrateDBError(Str("Could not delete BLOB: Not authorized."), "403")))
    [] status = "Timeout" ->
         Err(Action(CrateDBError(Str("Could not delete BLOB. Timed out."), "408")))
    [] status = "Error" ->
         Err(Action(CrateDBError(Str("Could not delete BLOB. Server error."), "500")))

\* The match on the status in BlobContainer::get.
get_status(status, content) ==
  CASE status = "Ok" -> Ok(content)
    [] status = "NotFound" ->
         Err(Action(CrateDBError(Str("Could not fetch BLOB. Not found."), "404")))
    [] status = "NotAuthorized" ->
         Err(Action(CrateDBError(Str("Could not fetch BLOB: Not authorized."), "403")))
    [] status = "Timeout" ->
         Err(Action(CrateDBError(Str("Could not fetch BLOB. Timed out."), "408")))
    [] status = "Error" ->
         Err(Action(CrateDBError(Str("Could not fetch BLOB. Server error."), "500")))

\* The value of a hex digit.
HexValue ==
  [c \in {"0", "1", "2", "3", "4", "5", "6", "7", "8", "9"} |->
     CASE c = "0" -> 0 [] c = "1" -> 1 [] c = "2" -> 2 [] c = "3" -> 3 [] c = "4" -> 4
       [] c = "5" -> 5 [] c = "6" -> 6 [] c = "7" -> 7 [] c = "8" -> 8 [] c = "9" -> 9]
  @@ [c \in {"a", "b", "c", "d", "e", "f"} |->
        CASE c = "a" -> 10 [] c = "b" -> 11 [] c = "c" -> 12
          [] c = "d" -> 13 [] c = "e" -> 14 [] c = "f" -> 15]
  @@ [c \in {"A", "B", "C", "D", "E", "F"} |->
        CASE c = "A" -> 10 [] c = "B" -> 11 [] c = "C" -> 12
          [] c = "D" -> 13 [] c = "E" -> 14 [] c = "F" -> 15]

RECURSIVE HexBytes(_)
HexBytes(str) ==
  IF Len(str) = 0 THEN <<>>
  ELSE <<(16 * HexValue[SubSeq(str, 1, 1)]) + HexValue[SubSeq(str, 2, 2)]>>
       \o HexBytes(SubSeq(str, 3, Len(str)))

\* The decoding that takes lowercase digits only.
from_hex_lowercase_only(str) ==
  IF \/ Len(str) % 2 # 0
     \/ \E i \in 1 .. Len(str) :
          SubSeq(str, i, i) \notin (DOMAIN HexValue \ {"A", "B", "C", "D", "E", "F"})
  THEN [ok |-> FALSE]
  ELSE [ok |-> TRUE, bytes |-> HexBytes(str)]

\* Vec::from_hex: fails on an odd length and on a character that is no hex digit.
from_hex(str) ==
  IF Len(str) % 2 # 0 \/ \E i \in 1 .. Len(str) : SubSeq(str, i, i) \notin DOMAIN HexValue
  THEN [ok |-> FALSE]
  ELSE [ok |-> TRUE, bytes |-> HexBytes(str)]

\* A text as one string.
RECURSIVE TextToString(_)
TextToString(text) ==
  IF text = <<>> THEN "" ELSE Head(text).v \o TextToString(Tail(text))

\* format!("select digest from blob.{}", table_name)
list_sql(table) == "select digest from blob." \o TextToString(table)

\* The loop of BlobContainer::list over the rows: a BlobRef for every row
\* whose first value is a string of hex digits.
RECURSIVE blob_refs(_, _, _)
blob_refs(rs, header, table) ==
  IF rs = <<>> THEN Ok(<<>>)
  ELSE LET row == MakeRow(Head(rs), header)
       IN IF ~row.ok THEN Panic
          ELSE LET digest_str == ByIndex(row.row, [fn |-> "as_string", T |-> "Value"], 0)
               IN IF digest_str.kind = "panic" THEN Panic
                  ELSE LET rest == blob_refs(Tail(rs), header, table)
                       IN IF rest.kind = "panic" THEN Panic
                          ELSE IF IsSome(digest_str.val) /\ from_hex(digest_str.val.s).ok
                               THEN Ok(<<BlobRef(from_hex(digest_str.val.s).bytes, table)>>
                                       \o rest.val)
                               ELSE rest

\* The match with the query's error replaced by a server error.
list_result_server_error(q, table) ==
  CASE q.kind = "Ok" -> blob_refs(q.val.rows.rows, q.val.rows.header, table)
    [] q.kind = "Err" ->
         Err(Action(CrateDBError(Str("Could not list BLOBs. Server error."), "500")))
    [] q.kind = "panic" -> Panic

\* The match on the query's result in BlobContainer::list.
list_result(q, table) ==
  CASE q.kind = "Ok" -> blob_refs(q.val.rows.rows, q.val.rows.header, table)
    [] q.kind = "Err" -> Err(Action(q.err))
    [] q.kind = "panic" -> Panic

\* ------------------------------------------------------------ inputs
SeqsUpTo(set, n) == UNION {[1 .. m -> set] : m \in 0 .. n}

\* An object of the members of f that are present (not None).
ObjOf(f) == JObj([key \in {j \in DOMAIN f : IsSome(f[j])} |-> f[key]])

NodePool == <<Url("http", "localhost:4200", << <<>> >>),
              Url("https", "play.crate.io", << <<>> >>),
              Url("ftp", "files", <<Str("db")>>)>>

\* The node lists a cluster is built with: with_custom_backend takes any list.
NodeLists == {SubSeq(NodePool, 1, n) : n \in 0 .. MaxNodes}

Sqls == {"select name from mytable where a = ?", "select * from sys.nodes"}
Unserializable == [t |-> "Unserializable"]
QueryParams == {None, JArr(<<JStr("hello")>>), Unserializable}
BulkParams == {JArr(<<JArr(<<JStr("hello")>>), JArr(<<JStr("world")>>)>>), Unserializable}

ColsOpts == {None, JInt(5), JArr(<<JStr("name")>>), JArr(<<JStr("name"), JInt(5), JStr("id")>>),
             JArr(<<JStr("name"), JStr("name")>>)}
RowPool == {JArr(<<JStr("A"), JInt(1), JNull>>), JInt(5)}
RowsOpts == {None, JStr("x")} \cup {JArr(q) : q \in SeqsUpTo(RowPool, MaxRows)}
DurationOpts == {None, JFloat(206), JInt(1), JStr("x")}
ResultPool == {ObjOf([rowcount |-> JInt(1)]), ObjOf([rowcount |-> JInt(3)]),
               ObjOf([rowcount |-> JFloat(1500)]), JInt(5)}
ResultsOpts == {None, JStr("x")} \cup {JArr(q) : q \in SeqsUpTo(ResultPool, MaxResults)}
ErrorOpts == {ObjOf([message |-> JStr("ReadOnlyException"), code |-> JInt(5000)]),
              ObjOf([message |-> JStr("ReadOnlyException"), code |-> JStr("5000")]),
              ObjOf([message |-> JStr("ReadOnlyException"), code |-> None]),
              ObjOf([message |-> JInt(1), code |-> JInt(5000)]),
              JInt(5)}

\* The JSON values a server answers with.
QueryValues ==
  {ObjOf([cols |-> c, rows |-> r, duration |-> d]) :
     c \in ColsOpts, r \in RowsOpts, d \in DurationOpts}
BulkValues ==
  {ObjOf([cols |-> JArr(<<>>), results |-> r, duration |-> d]) :
     r \in ResultsOpts, d \in DurationOpts}
ErrorValues == {ObjOf([error |-> e]) : e \in ErrorOpts}
OtherValues == {JArr(<<JInt(1)>>), JStr("x"), JNull}

\* The rows a server answers the query of list with, and the answers.
DigestRowPool == {JArr(<<JStr("1112")>>), JArr(<<JStr("0aFf")>>), JArr(<<JStr("zz")>>),
                  JArr(<<JStr("111")>>), JArr(<<JInt(5)>>), JArr(<<>>)}
ListValues ==
  {ObjOf([cols |-> JArr(<<JStr("digest")>>), rows |-> JArr(q), duration |-> JFloat(206)]) :
     q \in SeqsUpTo(DigestRowPool, MaxRows)}

\* Texts that are not JSON.
NotJson == {<<W("this"), W("is"), W("wrong"), W("my"), W("friend"), P(":"), P("{")>>,
            <<>>,
            <<P("{"), S("cols"), P(":")>>,
            <<P("{"), P("}"), W("x")>>}

\* The response texts.
Bodies ==
  {to_string(val) :
     val \in QueryValues \cup BulkValues \cup ErrorValues \cup OtherValues \cup ListValues}
  \cup NotJson

\* Descriptions a Backend implementation may put into a BackendError.
Descriptions ==
  {Str("connection refused"),
   to_string(ObjOf([cols |-> JArr(<<JStr("name")>>), rows |-> JArr(<<>>),
                    duration |-> JFloat(206)])),
   to_string(ObjOf([cols |-> JArr(<<>>), results |-> JArr(<<>>),
                    duration |-> JFloat(206)])),
   to_string(ObjOf([error |-> ObjOf([message |-> JStr("ReadOnlyException"),
                                     code |-> JInt(5000)])]))}

Buckets == {Str("bucket"), Str("my_table")}
BlobDatas == {<<>>, <<17, 18>>}
Streams ==
  {Stream(data, pos, rf, sf) :
     data \in BlobDatas, pos \in 0 .. 2, rf \in BOOLEAN, sf \in BOOLEAN}
BlobRefs == {BlobRef(sha1(Remaining(st)), table) : st \in Streams, table \in Buckets}

\* The strings from_string is called with.
NodeStrings ==
  {<<>>,
   <<W(",")>>,
   <<W("localhost:4200")>>,
   <<W("http"), W("://"), W("localhost:4200"), W("/")>>,
   <<W("http"), W("://"), W("localhost:4200")>>,
   <<W("http"), W("://"), W("localhost:4200"), W("/"), W(","),
     W("http"), W("://"), W("play.crate.io"), W("/")>>,
   <<W("http"), W("://"), W("localhost:4200"), W("/"), W(",")>>}
Proxies == {[host |-> "localhost", port |-> 12345], [host |-> "proxy", port |-> 8080]}
\* The backends with_custom_backend is given.
CustomBackends == {"custom", "store"}
EndpointTypes == {"SQL", "Blob"}

\* The endpoints, buckets and digests make_blob_url is called with.
BlobEndpoints ==
  {NoText,
   Some(<<W("localhost:4200")>>),
   Some(<<W("https"), W("://"), W("my_url")>>),
   Some(<<W("https"), W("://"), W("localhost:4200"), W("/"), W("_blobs")>>),
   Some(<<W("http"), W("://"), W("localhost:4200"), W("/"), W("_blobs")>>),
   Some(<<W("http"), W("://"), W("play.crate.io"), W("/"), W("db"), W("/"), W("_blobs")>>)}
UrlBuckets == Buckets \cup {<<W("/"), W("other")>>}
UrlDigests == {<<102, 102>>, <<10, 255>>, <<0>>, <<>>} \cup {b.sha1 : b \in BlobRefs}

\* The URLs the HTTP backend builds a client for, and its operations.
ClientUrls ==
  {Url(scheme, host, path) :
     scheme \in {"http", "https", "ftp"},
     host \in {"localhost:4200", "play.crate.io", "files"},
     path \in {<<Str("_sql")>>, <<Str("_blobs"), Str("my_table"), Str("6666")>>}}
BackendFunctions == {"execute", "upload_blob", "delete_blob", "fetch_blob"}

\* The positions and the column names accessors are called with.
Positions == 0 .. MaxWidth
ColumnNames == {"name", "digest", "far", "missing"}

\* The values and the column indexes Row::new is called with.
ValuePool == {JStr("hello"), JInt(1234), JInt(-1234), JFloat(3141), JBool(TRUE), JNull,
              JArr(<<JInt(1), JInt(2)>>), JArr(<<JInt(1), JStr("x")>>)}
Wrappeds == SeqsUpTo(ValuePool, MaxWidth)
Headers == {<<>>, "name" :> 0, ("name" :> 0) @@ ("digest" :> 1), "far" :> MaxWidth}

\* The status codes the HTTP server answers blob requests with.
HttpCodes == {200, 201, 202, 204, 400, 401, 403, 404, 405, 408, 500, 503}

\* Every HTTP status code.
StatusCodes == 100 .. 599

\* ------------------------------------------------------------ the backends
\* HTTPBackend::execute: the answers it can give for the URL.
http_execute(to) ==
  IF ~to.some THEN {Err(BackendError(Str("No URL specified")))}
  ELSE LET u == Url_parse(to.text)
       IN IF ~u.ok THEN {Panic}
          ELSE IF u.url.scheme \notin {"http", "https"}
               THEN {Err(BackendError(Str("Unknown URL scheme")))}
               ELSE {Err(from_transport), Err(from_io)} \cup {Ok(body) : body \in Bodies}

\* HTTPBackend::upload_blob and delete_blob.
http_blob(to, bucket, digest) ==
  IF make_blob_url(to, bucket, digest).ok
  THEN {Err(from_transport)}
       \cup {[kind |-> "Ok", val |-> parse_status(code), code |-> code] : code \in HttpCodes}
  ELSE {Err(BackendError(Str("Invalid blob url")))}

\* HTTPBackend::fetch_blob: the status and the response as the content.
http_fetch(to, bucket, digest) ==
  IF make_blob_url(to, bucket, digest).ok
  THEN {Err(from_transport)}
       \cup {[kind |-> "Ok", val |-> parse_status(code), code |-> code, content |-> c] :
               code \in HttpCodes, c \in BlobDatas}
  ELSE {Err(BackendError(Str("Invalid blob url")))}

\* Any other Backend implementation (the trait is public) answers as it likes.
custom_execute == {Ok(body) : body \in Bodies} \cup {Err(BackendError(d)) : d \in Descriptions}
custom_blob == {Ok(status) : status \in BackendResult}
               \cup {Err(BackendError(d)) : d \in Descriptions}
custom_fetch == {[kind |-> "Ok", val |-> status, content |-> c] :
                   status \in BackendResult, c \in BlobDatas}
                \cup {Err(BackendError(d)) : d \in Descriptions}

\* A Backend that keeps what upload_blob reads from f under (bucket, sha1),
\* one MockBlob per pair, and serves it to fetch_blob.
MockBlob(contents, digest, bucket) ==
  [contents |-> contents, sha1 |-> digest, bucket |-> bucket]

store_without(blobs, bucket, digest) ==
  {b \in blobs : ~(b.bucket = bucket /\ b.sha1 = digest)}

store_upload(blobs, bucket, digest, f) ==
  store_without(blobs, bucket, digest) \cup {MockBlob(Remaining(f), digest, bucket)}

store_blob == {Ok("Ok")}

store_delete_blob(blobs, bucket, digest) ==
  IF \E b \in blobs : b.bucket = bucket /\ b.sha1 = digest
  THEN {Ok("Ok")} ELSE {Ok("NotFound")}

store_fetch_blob(blobs, bucket, digest) ==
  LET found == {b \in blobs : b.bucket = bucket /\ b.sha1 = digest}
  IN IF found = {} THEN {[kind |-> "Ok", val |-> "NotFound", content |-> <<>>]}
     ELSE {[kind |-> "Ok", val |-> "Ok", content |-> b.contents] : b \in found}

\* ------------------------------------------------------------ state
VARIABLES
  nodes,     \* DBCluster.nodes
  backend,   \* DBCluster.backend: "http" (HTTPBackend) or "custom"
  op,        \* the last operation called, with its arguments
  calls,     \* the Backend calls the last operation made, in order
  answer,    \* what the backend answered to the last call
  result,    \* what the last operation returned
  iter,      \* the number of rows taken from the last row set
  produced,  \* the rows the last row set has produced
  store,     \* the blobs a storing backend holds
  access,    \* the last accessor call on the last row produced, and what it returned
  callers    \* the callers that share the cluster: each one's operation in progress

vars == <<nodes, backend, op, calls, answer, result, iter, produced, store, access, callers>>

\* The callers that hold a reference to the cluster.
Callers == 1 .. MaxCallers

\* The state after DBCluster's construction.
Init ==
  /\ nodes \in NodeLists
  /\ backend \in {"http", "custom"}
  /\ op = [name |-> "none"]
  /\ calls = <<>>
  /\ answer = NoResult
  /\ result = NoResult
  /\ iter = 0
  /\ produced = <<>>
  /\ store = {}
  /\ access = NoResult
  /\ callers = [c \in Callers |-> [pc |-> "idle"]]

\* No operation is in progress and the caller holds no result.
Idle == op.name = "none"

\* The last operation is a put and blob is the BlobRef it returned.
Returned(blob) == op.name = "put" /\ result.kind = "Ok" /\ blob = result.val

\* The caller is done with the last operation's result and drops it.
Drop ==
  /\ ~Idle
  /\ op' = [name |-> "none"]
  /\ calls' = <<>>
  /\ answer' = NoResult
  /\ result' = NoResult
  /\ iter' = 0
  /\ produced' = <<>>
  /\ access' = NoResult
  /\ UNCHANGED <<nodes, backend, store, callers>>

\* The node indices the random source can give for this cluster.
Nodes == IF nodes = <<>> THEN {0} ELSE NodeChoices(nodes)

\* Executor::execute followed by the decoding of QueryRunner::query or
\* bulk_query, and for the query of list (listed is the table) by its match.
Execute(sql, bulk, params, node, listed) ==
  LET url == get_endpoint(nodes, node, "SQL")
      q == json_query(sql, bulk, params)
  IN IF ~q.some
     THEN /\ calls' = <<>>
          /\ answer' = NoResult
          /\ result' = Panic
     ELSE \E ans \in (IF backend = "http" THEN http_execute(url) ELSE custom_execute) :
            /\ calls' = <<[fn |-> "execute", to |-> url, payload |-> q.text]>>
            /\ answer' = ans
            /\ result' = IF ans.kind = "panic" THEN Panic
                         ELSE IF bulk THEN bulk_query_decode(execute_text(ans))
                         ELSE IF listed.some
                              THEN list_result(query_decode(execute_text(ans)), listed.text)
                              ELSE query_decode(execute_text(ans))

\* QueryRunner::query
Query(sql, params, node) ==
  /\ Idle
  /\ op' = [name |-> "query", sql |-> sql, params |-> params]
  /\ Execute(sql, FALSE, params, node, NoText)
  /\ iter' = 0
  /\ produced' = <<>>
  /\ UNCHANGED <<nodes, backend, store, access, callers>>

\* QueryRunner::bulk_query
BulkQuery(sql, params, node) ==
  /\ Idle
  /\ op' = [name |-> "bulk_query", sql |-> sql, params |-> params]
  /\ Execute(sql, TRUE, params, node, NoText)
  /\ iter' = 0
  /\ produced' = <<>>
  /\ UNCHANGED <<nodes, backend, store, access, callers>>

\* Iterator::next on the row set the last query returned.
RowNext ==
  /\ op.name = "query"
  /\ result.kind = "Ok"
  /\ iter < len(result.val.rows)
  /\ LET row == MakeRow(result.val.rows.rows[iter + 1], result.val.rows.header)
     IN IF row.ok
        THEN /\ produced' = Append(produced, row.row)
             /\ iter' = iter + 1
             /\ result' = result
        ELSE /\ result' = Panic
             /\ UNCHANGED <<produced, iter>>
  /\ access' = NoResult
  /\ UNCHANGED <<nodes, backend, op, calls, answer, store, callers>>

\* Row::new, called with a row's values and a column index.
NewRow(wrapped, headers) ==
  /\ Idle
  /\ op' = [name |-> "row"]
  /\ produced' = <<Row(wrapped, headers)>>
  /\ UNCHANGED <<nodes, backend, calls, answer, result, iter, store, access, callers>>

\* An accessor of ByIndex called on the last row produced.
AccessByIndex(acc, idx) ==
  /\ op.name \in {"query", "row"}
  /\ produced # <<>>
  /\ access = NoResult
  /\ access' = [kind |-> "call", acc |-> acc, by |-> "index", idx |-> idx, col |-> "",
                ret |-> ByIndex(produced[Len(produced)], acc, idx)]
  /\ UNCHANGED <<nodes, backend, op, calls, answer, result, iter, produced, store, callers>>

\* An accessor of ByColumnName called on the last row produced.
AccessByColumnName(acc, col) ==
  /\ op.name \in {"query", "row"}
  /\ produced # <<>>
  /\ access = NoResult
  /\ access' = [kind |-> "call", acc |-> acc, by |-> "name", idx |-> 0, col |-> col,
                ret |-> ByColumnName(produced[Len(produced)], acc, col)]
  /\ UNCHANGED <<nodes, backend, op, calls, answer, result, iter, produced, store, callers>>

\* BlobContainer::list
List(table, node) ==
  /\ Idle
  /\ op' = [name |-> "list", table |-> table, sql |-> list_sql(table), params |-> None]
  /\ Execute(list_sql(table), FALSE, None, node, Some(table))
  /\ iter' = 0
  /\ produced' = <<>>
  /\ UNCHANGED <<nodes, backend, store, access, callers>>

\* BlobContainer::put
Put(table, blob, node) ==
  LET d == sha1_digest(blob)
      url == get_endpoint(nodes, node, "Blob")
  IN /\ Idle
     /\ op' = [name |-> "put", table |-> table, blob |-> blob]
     /\ IF ~d.ok
        THEN /\ calls' = <<>>
             /\ answer' = NoResult
             /\ result' = Err(Transport(from_io))
             /\ store' = store
        ELSE \E ans \in (IF backend = "http" THEN http_blob(url, table, d.sha1)
                         ELSE IF backend = "store" THEN store_blob
                         ELSE custom_blob) :
               /\ calls' = <<[fn |-> "upload_blob", to |-> url, bucket |-> table,
                              sha1 |-> d.sha1, f |-> d.stream]>>
               /\ answer' = ans
               /\ result' = IF ans.kind = "Err" THEN Err(Transport(ans.err))
                            ELSE put_status(ans.val, table, d.sha1)
               /\ store' = IF backend = "store"
                           THEN store_upload(store, table, d.sha1, d.stream)
                           ELSE store
     /\ iter' = 0
     /\ produced' = <<>>
     /\ UNCHANGED <<nodes, backend, access, callers>>

\* BlobContainer::delete
Delete(blob, node) ==
  LET url == get_endpoint(nodes, node, "Blob")
  IN /\ Idle
     /\ op' = [name |-> "delete", blob |-> blob]
     /\ \E ans \in (IF backend = "http" THEN http_blob(url, blob.table, blob.sha1)
                    ELSE IF backend = "store"
                         THEN store_delete_blob(store, blob.table, blob.sha1)
                    ELSE custom_blob) :
          /\ calls' = <<[fn |-> "delete_blob", to |-> url, bucket |-> blob.table,
                         sha1 |-> blob.sha1]>>
          /\ answer' = ans
          /\ result' = IF ans.kind = "Err" THEN Err(Transport(ans.err))
                       ELSE delete_status(ans.val)
     /\ store' = IF backend = "store" THEN store_without(store, blob.table, blob.sha1)
                 ELSE store
     /\ iter' = 0
     /\ produced' = <<>>
     /\ UNCHANGED <<nodes, backend, access, callers>>

\* Loadbalancing::get_endpoint, called by the cluster's user.
GetEndpoint(endpoint_type, node) ==
  /\ Idle
  /\ backend # "none"
  /\ op' = [name |-> "get_endpoint", endpoint_type |-> endpoint_type, node |-> node]
  /\ result' = Ok(get_endpoint(nodes, node, endpoint_type))
  /\ calls' = <<>>
  /\ answer' = NoResult
  /\ iter' = 0
  /\ produced' = <<>>
  /\ UNCHANGED <<nodes, backend, store, access, callers>>

\* BlobContainer::get
Get(blob, node) ==
  LET url == get_endpoint(nodes, node, "Blob")
  IN /\ Idle \/ Returned(blob)
     /\ op' = [name |-> "get", blob |-> blob,
               put |-> IF Idle THEN <<>> ELSE <<op.blob>>]
     /\ \E ans \in (IF backend = "http" THEN http_fetch(url, blob.table, blob.sha1)
                    ELSE IF backend = "store"
                         THEN store_fetch_blob(store, blob.table, blob.sha1)
                    ELSE custom_fetch) :
          /\ calls' = <<[fn |-> "fetch_blob", to |-> url, bucket |-> blob.table,
                         sha1 |-> blob.sha1]>>
          /\ answer' = ans
          /\ result' = IF ans.kind = "Err" THEN Err(Transport(ans.err))
                       ELSE get_status(ans.val, ans.content)
     /\ iter' = 0
     /\ produced' = <<>>
     /\ UNCHANGED <<nodes, backend, store, access, callers>>

Next ==
  \/ \E sql \in Sqls, params \in QueryParams, node \in Nodes : Query(sql, params, node)
  \/ \E sql \in Sqls, params \in BulkParams, node \in Nodes : BulkQuery(sql, params, node)
  \/ RowNext
  \/ \E table \in Buckets, blob \in Streams, node \in Nodes : Put(table, blob, node)
  \/ \E blob \in BlobRefs, node \in Nodes : Delete(blob, node)
  \/ \E blob \in BlobRefs, node \in Nodes : Get(blob, node)
  \/ \E table \in Buckets, node \in Nodes : List(table, node)
  \/ \E acc \in Accessors, idx \in Positions : AccessByIndex(acc, idx)
  \/ \E acc \in Accessors, col \in ColumnNames : AccessByColumnName(acc, col)
  \/ \E endpoint_type \in EndpointTypes, node \in Nodes : GetEndpoint(endpoint_type, node)
  \/ Drop

Spec == Init /\ [][Next]_vars

\* parse_status as a function of its argument alone.
ParseStatus(code) ==
  /\ Idle
  /\ op' = [name |-> "parse_status", code |-> code]
  /\ result' = Ok(parse_status(code))
  /\ calls' = <<>>
  /\ answer' = NoResult
  /\ iter' = 0
  /\ produced' = <<>>
  /\ UNCHANGED <<nodes, backend, store, access, callers>>

NextStatus ==
  \/ \E code \in StatusCodes : ParseStatus(code)
  \/ Drop

SpecStatus == Init /\ [][NextStatus]_vars

\* A constructor returned built: the cluster it holds, if any, is the one the
\* caller uses from now on.
Constructed(built) ==
  /\ Idle
  /\ result' = built
  /\ IF built.kind = "Ok"
     THEN nodes' = built.val.nodes /\ backend' = built.val.backend
     ELSE UNCHANGED <<nodes, backend>>
  /\ calls' = <<>>
  /\ answer' = NoResult
  /\ iter' = 0
  /\ produced' = <<>>
  /\ UNCHANGED <<store, access, callers>>

New(ns) ==
  /\ op' = [name |-> "new", nodes |-> ns]
  /\ Constructed(new(ns))

WithProxy(ns, proxy) ==
  /\ op' = [name |-> "with_proxy", nodes |-> ns, proxy |-> proxy]
  /\ Constructed(with_proxy(ns, proxy.host, proxy.port))

WithCustomBackend(ns, be) ==
  /\ op' = [name |-> "with_custom_backend", nodes |-> ns]
  /\ Constructed(Ok(with_custom_backend(ns, be)))

FromString(node_str) ==
  /\ op' = [name |-> "from_string", node_str |-> node_str]
  /\ Constructed(from_string(node_str))

\* No cluster is built yet.
InitCluster ==
  /\ nodes = <<>>
  /\ backend = "none"
  /\ op = [name |-> "none"]
  /\ calls = <<>>
  /\ answer = NoResult
  /\ result = NoResult
  /\ iter = 0
  /\ produced = <<>>
  /\ store = {}
  /\ access = NoResult
  /\ callers = [c \in Callers |-> [pc |-> "idle"]]

\* The constructors and the choice of an endpoint.
NextCluster ==
  \/ \E ns \in NodeLists : New(ns)
  \/ \E ns \in NodeLists, proxy \in Proxies : WithProxy(ns, proxy)
  \/ \E ns \in NodeLists, be \in CustomBackends : WithCustomBackend(ns, be)
  \/ \E node_str \in NodeStrings : FromString(node_str)
  \/ \E endpoint_type \in EndpointTypes, node \in Nodes : GetEndpoint(endpoint_type, node)
  \/ Drop

SpecCluster == InitCluster /\ [][NextCluster]_vars

\* make_blob_url, called on its own.
MakeBlobUrl(to, bucket, digest) ==
  LET made == make_blob_url(to, bucket, digest)
  IN /\ Idle
     /\ op' = [name |-> "make_blob_url", to |-> to, bucket |-> bucket, sha1 |-> digest]
     /\ result' = IF made.ok THEN Ok(made.url) ELSE Err(made.err)
     /\ calls' = <<>>
     /\ answer' = NoResult
     /\ iter' = 0
     /\ produced' = <<>>
     /\ UNCHANGED <<nodes, backend, store, access, callers>>

NextBlobUrl ==
  \/ \E to \in BlobEndpoints, bucket \in UrlBuckets, digest \in UrlDigests :
       MakeBlobUrl(to, bucket, digest)
  \/ Drop

SpecBlobUrl == InitCluster /\ [][NextBlobUrl]_vars

\* The client an operation of HTTPBackend builds for the URL it sends to:
\* execute matches on the scheme itself, the blob operations pass the scheme.
HttpClient(fn, to, use_proxy) ==
  /\ Idle
  /\ op' = [name |-> "client", fn |-> fn, to |-> to, use_proxy |-> use_proxy]
  /\ result' =
       IF fn = "execute"
       THEN CASE to.scheme = "http" -> Ok(client(use_proxy, "Plaintext"))
              [] to.scheme = "https" -> Ok(client(use_proxy, "Encryped"))
              [] OTHER -> Err(BackendError(Str("Unknown URL scheme")))
       ELSE Ok(client(use_proxy, into_UrlType(to.scheme)))
  /\ calls' = <<>>
  /\ answer' = NoResult
  /\ iter' = 0
  /\ produced' = <<>>
  /\ UNCHANGED <<nodes, backend, store, access, callers>>

NextClient ==
  \/ \E fn \in BackendFunctions, to \in ClientUrls, use_proxy \in BOOLEAN :
       HttpClient(fn, to, use_proxy)
  \/ Drop

SpecClient == InitCluster /\ [][NextClient]_vars

\* ------------------------------------------------------------ callers sharing the cluster
\* The operations the callers issue (each takes &self).
ConcurrentOps ==
  {[name |-> "query", sql |-> "select * from sys.nodes", params |-> None],
   [name |-> "query", sql |-> "select * from sys.nodes", params |-> Unserializable],
   [name |-> "bulk_query", sql |-> "select * from sys.nodes",
    params |-> JArr(<<JArr(<<JStr("hello")>>), JArr(<<JStr("world")>>)>>)],
   [name |-> "list", table |-> Str("my_table")],
   [name |-> "put", table |-> Str("my_table"), blob |-> Stream(<<17, 18>>, 0, FALSE, FALSE)],
   [name |-> "put", table |-> Str("my_table"), blob |-> Stream(<<17, 18>>, 0, TRUE, FALSE)],
   [name |-> "delete", blob |-> BlobRef(sha1(<<17, 18>>), Str("my_table"))],
   [name |-> "get", blob |-> BlobRef(sha1(<<17, 18>>), Str("my_table"))],
   [name |-> "get_endpoint", endpoint_type |-> "Blob"]}

\* One answer of each kind among the answers a backend can give.
OneOfEach(answers) ==
  {CHOOSE a \in answers : a.kind = kind : kind \in {b.kind : b \in answers}}

\* The caller's operation up to its Backend call: the endpoint is chosen and
\* the request built from the arguments and the node list; an operation that
\* makes no call returns here.
Begin(c, o, node) ==
  LET url == get_endpoint(nodes, node, IF o.name \in {"query", "bulk_query", "list"}
                                       THEN "SQL" ELSE "Blob")
      sql == IF o.name = "list" THEN list_sql(o.table) ELSE o.sql
      q == json_query(sql, o.name = "bulk_query", IF o.name = "list" THEN None ELSE o.params)
      d == sha1_digest(o.blob)
      returns(res) == [pc |-> "returned", op |-> o, node |-> node, calls |-> <<>>,
                       answer |-> NoResult, result |-> res]
      called(call) == [pc |-> "called", op |-> o, node |-> node, calls |-> <<call>>]
  IN /\ callers[c].pc = "idle"
     /\ backend # "none"
     /\ callers' = [callers EXCEPT ![c] =
          CASE o.name \in {"query", "bulk_query", "list"} ->
                 IF ~q.some THEN returns(Panic)
                 ELSE called([fn |-> "execute", to |-> url, payload |-> q.text])
            [] o.name = "put" ->
                 IF ~d.ok THEN returns(Err(Transport(from_io)))
                 ELSE called([fn |-> "upload_blob", to |-> url, bucket |-> o.table,
                              sha1 |-> d.sha1, f |-> d.stream])
            [] o.name = "delete" ->
                 called([fn |-> "delete_blob", to |-> url, bucket |-> o.blob.table,
                         sha1 |-> o.blob.sha1])
            [] o.name = "get" ->
                 called([fn |-> "fetch_blob", to |-> url, bucket |-> o.blob.table,
                         sha1 |-> o.blob.sha1])
            [] o.name = "get_endpoint" ->
                 returns(Ok(get_endpoint(nodes, node, o.endpoint_type)))]
     /\ UNCHANGED <<nodes, backend, op, calls, answer, result, iter, produced, store, access>>

\* The answers the backend can give to the call the caller has made.
Answers(c) ==
  IF callers[c].pc # "called" THEN {}
  ELSE LET call == callers[c].calls[1]
       IN OneOfEach(
            CASE call.fn = "execute" ->
                   IF backend = "http" THEN http_execute(call.to) ELSE custom_execute
              [] call.fn \in {"upload_blob", "delete_blob"} ->
                   IF backend = "http" THEN http_blob(call.to, call.bucket, call.sha1)
                   ELSE custom_blob
              [] call.fn = "fetch_blob" ->
                   IF backend = "http" THEN http_fetch(call.to, call.bucket, call.sha1)
                   ELSE custom_fetch)

\* The Backend call returns ans and the operation returns what it makes of it.
Finish(c, ans) ==
  LET o == callers[c].op
      call == callers[c].calls[1]
  IN /\ callers[c].pc = "called"
     /\ ans \in Answers(c)
     /\ callers' = [callers EXCEPT ![c] =
          [pc |-> "returned", op |-> o, node |-> callers[c].node,
           calls |-> callers[c].calls, answer |-> ans,
           result |->
             CASE o.name = "query" ->
                    IF ans.kind = "panic" THEN Panic ELSE query_decode(execute_text(ans))
               [] o.name = "bulk_query" ->
                    IF ans.kind = "panic" THEN Panic
                    ELSE bulk_query_decode(execute_text(ans))
               [] o.name = "list" ->
                    IF ans.kind = "panic" THEN Panic
                    ELSE list_result(query_decode(execute_text(ans)), o.table)
               [] o.name = "put" ->
                    IF ans.kind = "Err" THEN Err(Transport(ans.err))
                    ELSE put_status(ans.val, o.table, call.sha1)
               [] o.name = "delete" ->
                    IF ans.kind = "Err" THEN Err(Transport(ans.err))
                    ELSE delete_status(ans.val)
               [] o.name = "get" ->
                    IF ans.kind = "Err" THEN Err(Transport(ans.err))
                    ELSE get_status(ans.val, ans.content)]]
     /\ UNCHANGED <<nodes, backend, op, calls, answer, result, iter, produced, store, access>>

\* A caller's leaving that turns the node list, as a strategy does that keeps
\* its place in the cluster.
Leave_turning_nodes(c) ==
  /\ callers[c].pc = "returned"
  /\ callers' = [callers EXCEPT ![c] = [pc |-> "idle"]]
  /\ nodes' = IF nodes = <<>> THEN nodes ELSE Append(Tail(nodes), Head(nodes))
  /\ UNCHANGED <<backend, op, calls, answer, result, iter, produced, store, access>>


\* The caller drops what its operation returned.
Leave(c) ==
  /\ callers[c].pc = "returned"
  /\ callers' = [callers EXCEPT ![c] = [pc |-> "idle"]]
  /\ UNCHANGED <<nodes, backend, op, calls, answer, result, iter, produced, store, access>>

\* The callers' steps, in any order.
NextConcurrent ==
  \/ \E c \in Callers, o \in ConcurrentOps, node \in Nodes : Begin(c, o, node)
  \/ \E c \in Callers : \E ans \in Answers(c) : Finish(c, ans)
  \/ \E c \in Callers : Leave(c)

SpecConcurrent == Init /\ [][NextConcurrent]_vars

\* The accessors on rows built with Row::new.
NextRow ==
  \/ \E wrapped \in Wrappeds, headers \in Headers : NewRow(wrapped, headers)
  \/ \E acc \in Accessors, idx \in Positions : AccessByIndex(acc, idx)
  \/ \E acc \in Accessors, col \in ColumnNames : AccessByColumnName(acc, col)
  \/ Drop

SpecRow == Init /\ [][NextRow]_vars

\* The blob operations against a storing backend.
InitStore ==
  /\ nodes \in NodeLists
  /\ backend = "store"
  /\ op = [name |-> "none"]
  /\ calls = <<>>
  /\ answer = NoResult
  /\ result = NoResult
  /\ iter = 0
  /\ produced = <<>>
  /\ store = {}
  /\ access = NoResult
  /\ callers = [c \in Callers |-> [pc |-> "idle"]]

NextStore ==
  \/ \E table \in Buckets, blob \in Streams, node \in Nodes : Put(table, blob, node)
  \/ \E blob \in BlobRefs, node \in Nodes : Delete(blob, node)
  \/ \E blob \in BlobRefs, node \in Nodes : Get(blob, node)
  \/ Drop

SpecStore == InitStore /\ [][NextStore]_vars

\* ------------------------------------------------------------ properties
\* The last operation is a query or a bulk query the backend answered with a
\* body, and data is what the body parses to.
SqlAnswered == op.name \in {"query", "bulk_query"} /\ answer.kind = "Ok"
Data == from_str(answer.val)

Has(val, key) == val.t = "obj" /\ key \in DOMAIN val.o
IsNumber(val) == val.t \in {"int", "float"}

\* A body with cols (an array of names), rows (an array of arrays) and a
\* float duration.
WellFormedRows(val) ==
  /\ Has(val, "cols") /\ Has(val, "rows") /\ Has(val, "duration")
  /\ val.o["cols"].t = "arr"
  /\ \A i \in DOMAIN val.o["cols"].a : val.o["cols"].a[i].t = "str"
  /\ val.o["rows"].t = "arr"
  /\ \A i \in DOMAIN val.o["rows"].a : val.o["rows"].a[i].t = "arr"
  /\ val.o["duration"].t = "float"

\* A body with cols, results (an array of objects with an integer rowcount)
\* and a float duration.
WellFormedResults(val) ==
  /\ Has(val, "cols") /\ Has(val, "results") /\ Has(val, "duration")
  /\ val.o["results"].t = "arr"
  /\ \A i \in DOMAIN val.o["results"].a :
       /\ Has(val.o["results"].a[i], "rowcount")
       /\ val.o["results"].a[i].o["rowcount"].t = "int"
  /\ val.o["duration"].t = "float"

\* A body without cols and with /error/message (a string) and /error/code of
\* one of the given types.
WellFormedError(val, codeTypes) ==
  /\ val.t = "obj" /\ ~Has(val, "cols") /\ Has(val, "error")
  /\ Has(val.o["error"], "message") /\ Has(val.o["error"], "code")
  /\ val.o["error"].o["message"].t = "str"
  /\ val.o["error"].o["code"].t \in codeTypes

\* C1: for every body with cols, rows (an array of arrays) and a float
\* duration, query returns Ok with the body's duration and a row set whose
\* len() is the number of rows; iterating it yields exactly that many rows,
\* the i-th holding the values of the i-th row.
C1_QueryReturnsRows ==
  (op.name = "query" /\ answer.kind = "Ok" /\ IsSome(Data) /\ WellFormedRows(Data)) =>
    /\ result.kind = "Ok"
    /\ result.val.duration = Data.o["duration"].n
    /\ len(result.val.rows) = Len(Data.o["rows"].a)
    /\ Len(produced) = iter
    /\ iter <= Len(Data.o["rows"].a)
    /\ (ENABLED RowNext) <=> (iter < Len(Data.o["rows"].a))
    /\ \A i \in 1 .. iter : produced[i].wrapped = Data.o["rows"].a[i].a

C1_Witness ==
  /\ op.name = "query" /\ answer.kind = "Ok" /\ IsSome(Data) /\ WellFormedRows(Data)
  /\ Len(Data.o["rows"].a) = 2
  /\ iter = 2
  /\ result.kind = "Ok"

\* C2: for every body that does not parse as JSON, query and bulk_query fail
\* with the message "Invalid JSON was returned: " followed by the body
\* unchanged, and the code "500".
C2_InvalidJsonError ==
  (SqlAnswered /\ ~IsSome(Data)) =>
    /\ result.kind = "Err"
    /\ result.err.message = <<W("Invalid JSON was returned"), W(": ")>> \o answer.val
    /\ result.err.code = "500"

C2_Witness ==
  /\ op.name = "bulk_query" /\ answer.kind = "Ok" /\ ~IsSome(Data)
  /\ answer.val # <<>>
  /\ result.kind = "Err"

\* C3 as claimed: for every parsed body without /cols whose /error/message is
\* a string and whose /error/code is an integer or a string, query and
\* bulk_query fail with that message and with the code rendered as a string.
C3_ErrorCodeIntOrString ==
  (SqlAnswered /\ IsSome(Data) /\ WellFormedError(Data, {"int", "str"})) =>
    /\ result.kind = "Err"
    /\ result.err.message = <<W(Data.o["error"].o["message"].s)>>
    /\ result.err.code = (IF Data.o["error"].o["code"].t = "int"
                          THEN ToString(Data.o["error"].o["code"].n)
                          ELSE Data.o["error"].o["code"].s)

\* C4: for every body with /cols, /results (objects with an integer rowcount)
\* and a float /duration, bulk_query returns Ok with the duration and the
\* rowcounts, one per result and in the array's order.
C4_BulkRowcounts ==
  (op.name = "bulk_query" /\ answer.kind = "Ok" /\ IsSome(Data) /\ WellFormedResults(Data)) =>
    /\ result.kind = "Ok"
    /\ result.val.duration = Data.o["duration"].n
    /\ Len(result.val.rowcounts) = Len(Data.o["results"].a)
    /\ \A i \in DOMAIN Data.o["results"].a :
         result.val.rowcounts[i] = Data.o["results"].a[i].o["rowcount"].n

C4_Witness ==
  /\ op.name = "bulk_query" /\ answer.kind = "Ok" /\ IsSome(Data) /\ WellFormedResults(Data)
  /\ Len(Data.o["results"].a) = 2
  /\ Data.o["results"].a[1] # Data.o["results"].a[2]
  /\ result.kind = "Ok"

\* A parsed body that is neither the success body of the operation nor an
\* error body.
UnexpectedShape ==
  /\ IsSome(Data)
  /\ ~WellFormedError(Data, {"int", "str"})
  /\ IF op.name = "query" THEN ~WellFormedRows(Data) ELSE ~WellFormedResults(Data)

\* C5 as claimed: every body that parses as JSON and has an unexpected shape
\* makes query and bulk_query return an error with code "500" whose message
\* embeds the raw body, as for a body that is not JSON.
C5_UnexpectedShapeIsError ==
  (SqlAnswered /\ UnexpectedShape) =>
    /\ result.kind = "Err"
    /\ result.err.message = <<W("Invalid JSON was returned"), W(": ")>> \o answer.val
    /\ result.err.code = "500"

\* C6: the text handed to Backend.execute is a JSON object with exactly the
\* members stmt (the sql) and, for a query with parameters, args (the
\* parameters), for a bulk query bulk_args (the parameters).
C6_RequestBody ==
  \A i \in DOMAIN calls :
    calls[i].fn = "execute" =>
      LET sent == from_str(calls[i].payload)
      IN /\ IsSome(sent)
         /\ sent.t = "obj"
         /\ DOMAIN sent.o =
              (IF op.name = "bulk_query" THEN {"stmt", "bulk_args"}
               ELSE IF IsSome(op.params) THEN {"stmt", "args"} ELSE {"stmt"})
         /\ sent.o["stmt"] = JStr(op.sql)
         /\ (op.name = "bulk_query" => sent.o["bulk_args"] = op.params)
         /\ (op.name = "query" /\ IsSome(op.params) => sent.o["args"] = op.params)

C6_Witness ==
  /\ op.name = "bulk_query"
  /\ Len(calls) = 1
  /\ calls[1].fn = "execute"
  /\ IsSome(from_str(calls[1].payload))

\* C7 as claimed: whenever Backend.execute returns a BackendError, query and
\* bulk_query fail with a CrateDBError of code "500".
C7_BackendErrorIsFailure ==
  (op.name \in {"query", "bulk_query"} /\ answer.kind = "Err") =>
    /\ result.kind = "Err"
    /\ result.err.code = "500"

\* The outcome the status table gives a code.
StatusTable(code) ==
  IF code \in {200, 201, 202} THEN "Ok"
  ELSE IF code \in {401, 403, 405} THEN "NotAuthorized"
  ELSE IF code = 408 THEN "Timeout"
  ELSE "Error"

\* C8: parse_status maps 200, 201, 202 to Ok, 400 and 500 to Error, 401, 403
\* and 405 to NotAuthorized, 408 to Timeout and every other code to Error.
C8_StatusMapping ==
  op.name = "parse_status" =>
    /\ result.kind = "Ok"
    /\ result.val = StatusTable(op.code)
    /\ result.val \in BackendResult

C8_Witness ==
  /\ op.name = "parse_status"
  /\ op.code = 405
  /\ result.val = "NotAuthorized"

\* C9 as claimed: every status code from 200 to 299 is classified as Ok.
C9_All2xxOk ==
  (op.name = "parse_status" /\ op.code \in 200 .. 299) => result.val = "Ok"

\* C9 as amended: of the status codes from 200 to 299, exactly 200, 201 and
\* 202 are classified as Ok; every other one is classified as Error.
C9_Only200To202Ok ==
  (op.name = "parse_status" /\ op.code \in 200 .. 299) =>
    /\ (op.code \in 200 .. 202 => result.val = "Ok")
    /\ (op.code \in 203 .. 299 => result.val = "Error")

C9_Witness ==
  /\ op.name = "parse_status"
  /\ op.code = 204
  /\ result.val = "Error"

\* The code and the message's ending that go with an outcome other than Ok.
OutcomeCode(status) ==
  CASE status = "NotFound" -> "404"
    [] status = "NotAuthorized" -> "403"
    [] status = "Timeout" -> "408"
    [] status = "Error" -> "500"

OutcomeMessage(name, status) ==
  CASE name = "put" /\ status = "NotFound" -> "Could not upload BLOB. Not found."
    [] name = "put" /\ status = "NotAuthorized" -> "Could not upload BLOB: Not authorized."
    [] name = "put" /\ status = "Timeout" -> "Could not upload BLOB. Timed out."
    [] name = "put" /\ status = "Error" -> "Could not upload BLOB. Server error."
    [] name = "get" /\ status = "NotFound" -> "Could not fetch BLOB. Not found."
    [] name = "get" /\ status = "NotAuthorized" -> "Could not fetch BLOB: Not authorized."
    [] name = "get" /\ status = "Timeout" -> "Could not fetch BLOB. Timed out."
    [] name = "get" /\ status = "Error" -> "Could not fetch BLOB. Server error."
    [] name = "delete" /\ status = "NotFound" -> "Could not delete BLOB. Not found."
    [] name = "delete" /\ status = "NotAuthorized" -> "Could not delete BLOB: Not authorized."
    [] name = "delete" /\ status = "Timeout" -> "Could not delete BLOB. Timed out."
    [] name = "delete" /\ status = "Error" -> "Could not delete BLOB. Server error."

\* C10: for put, get and delete and every backend outcome other than Ok, the
\* operation fails with BlobError::Action carrying the outcome's code (404,
\* 403, 408, 500) and the operation's message for the outcome.
C10_BlobOutcomeErrors ==
  (op.name \in {"put", "get", "delete"} /\ answer.kind = "Ok" /\ answer.val # "Ok") =>
    /\ result.kind = "Err"
    /\ result.err.variant = "Action"
    /\ result.err.err.code = OutcomeCode(answer.val)
    /\ result.err.err.message = <<W(OutcomeMessage(op.name, answer.val))>>

C10_Witness ==
  /\ op.name = "delete"
  /\ answer.kind = "Ok"
  /\ answer.val = "NotFound"
  /\ result.kind = "Err"

\* C11: when the backend answers an upload with Ok, put returns a BlobRef
\* whose table is the given bucket and whose sha1 is the digest of the bytes
\* the stream held for the digest pass; the BlobRef is a function of the
\* bucket and the bytes alone, so the same bytes uploaded to the same bucket
\* twice give equal BlobRefs.
C11_PutReturnsBlobRef ==
  (op.name = "put" /\ answer.kind = "Ok" /\ answer.val = "Ok") =>
    /\ result.kind = "Ok"
    /\ result.val.table = op.table
    /\ result.val.sha1 = sha1(Remaining(op.blob))
    /\ Len(result.val.sha1) = DigestLen
    /\ \A other \in Streams :
         (sha1_digest(other).ok /\ Remaining(other) = Remaining(op.blob)) =>
           put_status("Ok", op.table, sha1_digest(other).sha1) = result

C11_Witness ==
  /\ op.name = "put" /\ answer.kind = "Ok" /\ answer.val = "Ok"
  /\ op.blob.pos = 0
  /\ op.blob.data # <<>>
  /\ result.kind = "Ok"

\* The stream is a cursor at the start of its bytes, as Cursor::new(bytes) is:
\* reading and seeking it never fail.
IsCursor(st) == st.pos = 0 /\ ~st.readFails /\ ~st.seekFails

\* C12: against a backend that stores what is uploaded under (bucket, digest),
\* a put of bytes (handed over as a cursor at their start) followed by a get
\* of the BlobRef the put returned yields a content equal to the bytes.
C12_RoundTrip ==
  (backend = "store" /\ op.name = "get" /\ op.put # <<>> /\ IsCursor(op.put[1])) =>
    /\ result.kind = "Ok"
    /\ result.val = op.put[1].data
    /\ op.blob.sha1 = sha1(op.put[1].data)

C12_Witness ==
  /\ backend = "store" /\ op.name = "get" /\ op.put # <<>> /\ IsCursor(op.put[1])
  /\ op.put[1].data # <<>>
  /\ result.kind = "Ok"
  /\ result.val = op.put[1].data

\* The digests the rows of the answers hold as valid hex, decoded.
KnownDigests == ("1112" :> <<17, 18>>) @@ ("0aFf" :> <<10, 255>>)

\* The row holds a valid hex digest as its entry.
HoldsDigest(row) == row.a[1].t = "str" /\ row.a[1].s \in DOMAIN KnownDigests

\* The last operation is a list whose query was answered with a success body
\* in which every row holds an entry.
ListAnswered ==
  /\ op.name = "list" /\ answer.kind = "Ok" /\ IsSome(Data) /\ WellFormedRows(Data)
  /\ \A i \in DOMAIN Data.o["rows"].a : Len(Data.o["rows"].a[i].a) >= 1

Decoded == from_str(execute_text(answer))

\* The query of the last list failed with an error.
ListQueryFailed ==
  /\ op.name = "list" /\ answer.kind \in {"Ok", "Err"}
  /\ query_decode(execute_text(answer)).kind = "Err"

\* C14: when the query that list issues fails with a CrateDBError, list fails
\* with BlobError::Action carrying that error, its message and code unchanged.
C14_ListWrapsQueryError ==
  ListQueryFailed =>
    LET e == query_decode(execute_text(answer)).err
    IN /\ result.kind = "Err"
       /\ result.err.variant = "Action"
       /\ result.err.err.message = e.message
       /\ result.err.err.code = e.code
       /\ result.err.err = e
       /\ (IsSome(Decoded) /\ WellFormedError(Decoded, {"int"}) =>
             /\ result.err.err.message = <<W(Decoded.o["error"].o["message"].s)>>
             /\ result.err.err.code = ToString(Decoded.o["error"].o["code"].n))

C14_Witness ==
  /\ ListQueryFailed
  /\ IsSome(Decoded) /\ WellFormedError(Decoded, {"int"})
  /\ result.kind = "Err"
  /\ result.err.err.code = "5000"

\* The row the last accessor was called on.
AccessedRow == produced[Len(produced)]

\* The value is of the type the accessor asks for.
OfRequestedType(val, acc) ==
  CASE acc.fn = "as_string" -> val.t = "str"
    [] acc.fn = "as_i64" -> val.t = "int"
    [] acc.fn = "as_u64" -> val.t = "int" /\ val.n >= 0
    [] acc.fn = "as_f64" -> val.t \in {"int", "float"}
    [] acc.fn = "as_bool" -> val.t = "bool"
    [] acc.fn = "as_array" ->
         /\ val.t = "arr"
         /\ \A i \in DOMAIN val.a :
              CASE acc.T = "Value" -> TRUE
                [] acc.T = "i64" -> val.a[i].t = "int"
                [] acc.T = "String" -> val.a[i].t = "str"

\* C15 as claimed: for every row and every position inside the row, each
\* accessor of ByIndex returns None, and does not abort, when the value at the
\* position is not of the requested type or does not decode, as_array on an
\* array with an element that does not decode as T included.
C15_MismatchGivesNone ==
  (/\ access.kind = "call" /\ access.by = "index"
   /\ access.idx < Len(AccessedRow.wrapped)
   /\ ~OfRequestedType(AccessedRow.wrapped[access.idx + 1], access.acc)) =>
    access.ret = Opt(None)

\* C16: an accessor of ByColumnName returns None when the name is not in the
\* row's column index, and otherwise what the accessor of ByIndex of the same
\* type returns at the position the index gives the name.
C16_ByNameIsByIndex ==
  (access.kind = "call" /\ access.by = "name") =>
    IF access.col \in DOMAIN AccessedRow.columns
    THEN access.ret = ByIndex(AccessedRow, access.acc, AccessedRow.columns[access.col])
    ELSE access.ret = Opt(None)

C16_Witness ==
  /\ access.kind = "call" /\ access.by = "name"
  /\ access.col \in DOMAIN AccessedRow.columns
  /\ AccessedRow.columns[access.col] = 1
  /\ access.ret.kind = "Opt"
  /\ IsSome(access.ret.val)

\* C17 as claimed: on every row of a row set that query returned, no accessor
\* of ByColumnName, whatever the name, and no accessor of ByIndex at a
\* position below the number of columns the answer declares aborts: each
\* returns a value or None.
C17_NoAccessorAborts ==
  (/\ op.name = "query" /\ access.kind = "call"
   /\ (access.by = "index" => access.idx < Len(Data.o["cols"].a))) =>
    access.ret.kind = "Opt"

\* ------------------------------------------------------------ constructors
\* C18: building a cluster with new or with_proxy from an empty node list, or
\* with from_string from the empty string, fails with the
\* CrateDBConfigurationError and returns no cluster.
C18_EmptyListRejected ==
  (\/ op.name \in {"new", "with_proxy"} /\ op.nodes = <<>>
   \/ op.name = "from_string" /\ op.node_str = <<>>) =>
    result = Err(CrateDBConfigurationError)

\* C19: every cluster a public constructor returned has a node list that is
\* not empty, and get_endpoint on a cluster never returns None.
C19_ClusterHasNodes ==
  /\ (op.name \in {"new", "with_proxy", "from_string", "with_custom_backend"}
        /\ result.kind = "Ok") => result.val.nodes # <<>>
  /\ backend # "none" => nodes # <<>>
  /\ op.name = "get_endpoint" => result.val.some

\* The strings of the nodes of NodePool, as Url::as_str gives them.
NodeText == <<"http://localhost:4200/", "https://play.crate.io/", "ftp://files/db">>
SqlOperations == {"query", "bulk_query", "list"}
BlobOperations == {"put", "get", "delete"}

\* C20: for a node list that is not empty, get_endpoint returns Some(u) with u
\* the string of the node at the chosen index, which lies within the list,
\* followed by "_sql" for SQL and by "_blobs" for Blob; query, bulk_query and
\* list send to the SQL endpoint of a configured node, put, get and delete to
\* the Blob endpoint of one.
C20_EndpointOfNode ==
  nodes # <<>> =>
    /\ op.name = "get_endpoint" =>
         /\ op.node < Len(nodes)
         /\ result.val.some
         /\ TextToString(result.val.text) =
              NodeText[op.node + 1] \o
                (IF op.endpoint_type = "SQL" THEN "_sql" ELSE "_blobs")
    /\ \A i \in DOMAIN calls :
         /\ op.name \in SqlOperations \cup BlobOperations
         /\ calls[i].fn = "execute" <=> op.name \in SqlOperations
         /\ calls[i].to.some
         /\ \E n \in 1 .. Len(nodes) :
              TextToString(calls[i].to.text) =
                NodeText[n] \o (IF op.name \in SqlOperations THEN "_sql" ELSE "_blobs")

C20_Witness ==
  /\ Len(nodes) = 2
  /\ op.name = "put"
  /\ calls # <<>>
  /\ TextToString(calls[1].to.text) = "https://play.crate.io/_blobs"

\* ------------------------------------------------------------ blob URLs
\* The hexadecimal digits in lower case.
LowerHex == {"0", "1", "2", "3", "4", "5", "6", "7", "8", "9", "a", "b", "c", "d", "e", "f"}

\* C21: for a valid endpoint URL, a bucket and a digest, the blob URL is the
\* endpoint URL followed by /{bucket}/{hex(digest)}, the hex text having two
\* lower-case digits per byte and nothing else; the endpoint's path is kept
\* for every bucket name.
C21_BlobUrlExtendsEndpoint ==
  (op.name = "make_blob_url" /\ op.to.some /\ Url_parse(op.to.text).ok) =>
    /\ result.kind = "Ok"
    /\ LET hex == result.val.path[Len(result.val.path)]
       IN /\ Len(hex) = 2 * Len(op.sha1)
          /\ \A i \in DOMAIN hex : hex[i].v \in LowerHex
          /\ from_hex(TextToString(hex)) = [ok |-> TRUE, bytes |-> op.sha1]
          /\ TextToString(url_as_str(result.val)) =
               TextToString(op.to.text) \o "/" \o TextToString(op.bucket)
                 \o "/" \o TextToString(hex)

\* The blob URL of a bucket name that does not start with a separator.
C21_RelativeBucket ==
  (op.name = "make_blob_url" /\ Head(op.bucket) = W("/")) \/ C21_BlobUrlExtendsEndpoint

C21_Example ==
  /\ op.name = "make_blob_url"
  /\ op.bucket = Str("my_table") /\ op.sha1 = <<102, 102>>
  /\ result.kind = "Ok"
  /\ TextToString(url_as_str(result.val)) = "https://localhost:4200/_blobs/my_table/6666"

\* ------------------------------------------------------------ the HTTP backend without a URL
\* C22: execute, upload_blob, delete_blob and fetch_blob of the HTTP backend,
\* called with url = None, fail with the BackendError "No URL specified";
\* "Invalid blob url" is the answer only to a URL that is there.
C22_NoUrlSpecified ==
  (backend = "http" /\ calls # <<>>) =>
    /\ ~calls[1].to.some => answer = Err(BackendError(Str("No URL specified")))
    /\ answer = Err(BackendError(Str("Invalid blob url"))) => calls[1].to.some

\* ------------------------------------------------------------ transport errors of blobs
\* C23: when the backend call of put, get or delete returns a BackendError,
\* the operation fails with BlobError::Transport carrying that error; when a
\* read fails during put's digest pass, put fails with BlobError::Transport
\* carrying the I/O error and makes no upload call.
C23_TransportErrors ==
  op.name \in BlobOperations =>
    /\ answer.kind = "Err" =>
         /\ result.kind = "Err"
         /\ result.err.variant = "Transport"
         /\ result.err.err = answer.err
    /\ (op.name = "put" /\ op.blob.readFails) =>
         /\ calls = <<>>
         /\ result.kind = "Err"
         /\ result.err.variant = "Transport"
         /\ result.err.err = BackendError(Str("Error on I/O: ") \o Str("BrokenPipe"))

C23_Witness ==
  /\ op.name = "put"
  /\ op.blob.readFails
  /\ calls = <<>>
  /\ result.kind = "Err"

C23_BackendErrorWitness ==
  /\ op.name = "get"
  /\ answer.kind = "Err"
  /\ result.kind = "Err"

\* ------------------------------------------------------------ the digest pass and the upload
\* C24: whenever sha1_digest returns Ok, the stream has been read to its end
\* and its position is back at 0 when put starts the upload.
C24_RewoundBeforeUpload ==
  (op.name = "put" /\ calls # <<>>) =>
    /\ sha1_digest(op.blob).ok
    /\ calls[1].sha1 = sha1(Remaining(op.blob))
    /\ calls[1].f.pos = 0

\* C28: the digest put passes to upload_blob, and returns in the BlobRef, is
\* the SHA-1 of the bytes the upload then reads from the stream, for every
\* read position of the stream at the call and whether or not the seek to the
\* start succeeds.
C28_DigestOfUploadedBytes ==
  (op.name = "put" /\ calls # <<>>) =>
    /\ calls[1].sha1 = sha1(Remaining(calls[1].f))
    /\ result.kind = "Ok" => result.val.sha1 = sha1(Remaining(calls[1].f))

\* ------------------------------------------------------------ one backend call per operation
\* C25: each invocation of query, bulk_query, get, delete or list makes
\* exactly one Backend call, each put whose digest pass succeeds makes exactly
\* one upload_blob call, and after a failed backend call the operation
\* returns the error without another call.
C25_ExactlyOneCall ==
  /\ op.name \in {"query", "bulk_query", "get", "delete", "list"} => Len(calls) = 1
  /\ (op.name = "put" /\ sha1_digest(op.blob).ok) =>
       Len(calls) = 1 /\ calls[1].fn = "upload_blob"
  /\ answer.kind = "Err" => Len(calls) = 1 /\ result.kind # "Ok"

\* The calls of the operations whose request can be built: one, and none after it.
C25_OneCallWhenSerializable ==
  /\ op.name \in {"query", "bulk_query", "get", "delete", "list"} =>
       \/ Len(calls) = 1
       \/ op.name \in {"query", "bulk_query"} /\ op.params = Unserializable
            /\ calls = <<>> /\ result = Panic
  /\ (op.name = "put" /\ sha1_digest(op.blob).ok) =>
       Len(calls) = 1 /\ calls[1].fn = "upload_blob"
  /\ answer.kind = "Err" => Len(calls) = 1

\* ------------------------------------------------------------ the column index
\* A row set that query returned for a decoded response.
RowSetReturned ==
  /\ op.name = "query"
  /\ calls # <<>>
  /\ answer.kind # "panic"
  /\ result.kind = "Ok"

\* The positions (0-based) of /cols that hold the name.
PositionsOf(name) ==
  {i - 1 : i \in {j \in DOMAIN Decoded.o["cols"].a : Decoded.o["cols"].a[j] = JStr(name)}}

\* Every row produced holds the index of the row set.
IndexShared ==
  \A i \in DOMAIN produced : produced[i].columns = result.val.rows.header

\* C26 as stated: the name at every array position i of /cols maps to i, and
\* every row produced references the row set's index, which stays as built.
C26_NameAtPositionMapsToIt ==
  RowSetReturned =>
    /\ \A i \in DOMAIN Decoded.o["cols"].a :
         Decoded.o["cols"].a[i].t = "str" =>
           /\ Decoded.o["cols"].a[i].s \in DOMAIN result.val.rows.header
           /\ result.val.rows.header[Decoded.o["cols"].a[i].s] = i - 1
    /\ IndexShared

\* C26: the column index of a row set is built from /cols, every name of
\* /cols mapped to the last array position that holds it and nothing else
\* mapped; every row the row set produces references that index, and it is
\* the same index after every iteration step and accessor call.
C26_IndexBuiltOnceAndShared ==
  RowSetReturned =>
    /\ \A i \in DOMAIN Decoded.o["cols"].a :
         Decoded.o["cols"].a[i].t = "str" =>
           Decoded.o["cols"].a[i].s \in DOMAIN result.val.rows.header
    /\ \A name \in DOMAIN result.val.rows.header :
         /\ PositionsOf(name) # {}
         /\ result.val.rows.header[name] \in PositionsOf(name)
         /\ \A i \in PositionsOf(name) : i <= result.val.rows.header[name]
    /\ IndexShared

C26_Witness ==
  /\ RowSetReturned
  /\ Decoded.o["cols"].a = <<JStr("name"), JStr("name")>>
  /\ Len(produced) = 2
  /\ access.kind = "call"

\* ------------------------------------------------------------ a missing blob over HTTP
\* C29: parse_status gives NotFound for no status code; through the HTTP
\* backend a 404 answer to put, get or delete is the outcome Error, reported
\* with the operation's "Server error." message and the code "500"; the
\* "Not found." error with the code "404" is returned only with another
\* backend than the HTTP one.
C29_Http404IsServerError ==
  /\ \A code \in StatusCodes : parse_status(code) # "NotFound"
  /\ (backend = "http" /\ op.name \in BlobOperations
        /\ answer.kind = "Ok" /\ answer.code = 404) =>
       /\ answer.val = "Error"
       /\ result = Err(Action(CrateDBError(<<W(OutcomeMessage(op.name, "Error"))>>, "500")))
  /\ (op.name \in BlobOperations /\ result.kind = "Err"
        /\ result.err.variant = "Action" /\ result.err.err.code = "404") =>
       /\ backend # "http"
       /\ result.err.err.message = <<W(OutcomeMessage(op.name, "NotFound"))>>

C29_Witness ==
  /\ backend = "http"
  /\ op.name = "get"
  /\ answer.kind = "Ok" /\ answer.code = 404
  /\ result.kind = "Err"

C29_NotFoundWitness ==
  /\ backend = "custom"
  /\ op.name = "delete"
  /\ result.kind = "Err" /\ result.err.variant = "Action" /\ result.err.err.code = "404"

\* ------------------------------------------------------------ the client's connector
\* C30: without a proxy, the client the HTTP backend builds for an https URL
\* has the TLS connector and the client for an http URL the plain connector,
\* in execute and in every blob operation.
C30_ConnectorMatchesScheme ==
  (op.name = "client" /\ ~op.use_proxy) =>
    /\ op.to.scheme = "https" => result = Ok("HttpsConnector")
    /\ op.to.scheme = "http" => result = Ok("HttpConnector")

\* ------------------------------------------------------------ concurrent callers
\* The operation of the caller record k, issued with no other caller around,
\* can make the same call, get the same answer and return the same result.
Alone(k) ==
  CASE k.op.name = "query" ->
         ENABLED (/\ calls' = k.calls /\ answer' = k.answer /\ result' = k.result
                  /\ Query(k.op.sql, k.op.params, k.node))
    [] k.op.name = "bulk_query" ->
         ENABLED (/\ calls' = k.calls /\ answer' = k.answer /\ result' = k.result
                  /\ BulkQuery(k.op.sql, k.op.params, k.node))
    [] k.op.name = "list" ->
         ENABLED (/\ calls' = k.calls /\ answer' = k.answer /\ result' = k.result
                  /\ List(k.op.table, k.node))
    [] k.op.name = "put" ->
         ENABLED (/\ calls' = k.calls /\ answer' = k.answer /\ result' = k.result
                  /\ Put(k.op.table, k.op.blob, k.node))
    [] k.op.name = "delete" ->
         ENABLED (/\ calls' = k.calls /\ answer' = k.answer /\ result' = k.result
                  /\ Delete(k.op.blob, k.node))
    [] k.op.name = "get" ->
         ENABLED (/\ calls' = k.calls /\ answer' = k.answer /\ result' = k.result
                  /\ Get(k.op.blob, k.node))
    [] k.op.name = "get_endpoint" ->
         ENABLED (/\ calls' = k.calls /\ answer' = k.answer /\ result' = k.result
                  /\ GetEndpoint(k.op.endpoint_type, k.node))

\* C27: with several callers issuing query, bulk_query, put, get, delete, list
\* and get_endpoint on the same cluster in any interleaving, no step changes
\* the node list or the backend, and what every call returns is what the same
\* call, with the node chosen for it and the backend's answer to it, returns
\* when it is issued alone.
C27_CallsIndependent ==
  /\ [](\A c \in Callers : callers[c].pc = "returned" => Alone(callers[c]))
  /\ [][nodes' = nodes /\ backend' = backend /\ store' = store]_vars

C27_Witness ==
  /\ Len(nodes) = 2
  /\ callers[1].pc = "returned" /\ callers[1].op.name = "put" /\ callers[1].node = 1
  /\ callers[1].result.kind = "Ok"
  /\ callers[2].pc = "called" /\ callers[2].op.name = "query" /\ callers[2].node = 0
====
